---- MODULE Spec2Model ----
(***************************************************************************)
(* A model of the Nuclear data-access layer ("Prisma abstraction layer")   *)
(* and of the HTTP route handlers documented in this repository.           *)
(*                                                                         *)
(* The store is the Prisma schema of docs/development/database: eight      *)
(* tables keyed by cuid, a unique index on User.email and foreign keys     *)
(* declared with @relation.  The access modules (lib/user.ts, ...) are     *)
(* modelled from their API reference, their documented validation          *)
(* snippets and the code samples that show their bodies.                   *)
(*                                                                         *)
(* No relation of the schema declares onDelete, so the referential actions *)
(* are Prisma's defaults: Restrict for a required relation, SetNull for an *)
(* optional one.  Columns that no operation reads (content, description,   *)
(* hint, ...) are left out of the rows; ids are integers handed out in     *)
(* order, 0 stands for a NULL reference and "null" for a NULL string.      *)
(***************************************************************************)
EXTENDS Integers, Sequences, FiniteSets, TLC

VARIABLES
    db,      \* the database: db[e] maps the ids present in table e to rows
    nextId,  \* source of fresh cuids (globally unique, never reused)
    now,     \* the clock read by @default(now()) and @updatedAt
    last,    \* outcome of the most recent data-access call
    focus,   \* the access module a run of Spec exercises
    reqs,    \* HTTP requests in flight against /api/users
    env,     \* process.env: the value of each variable the code reads
    connected, \* whether the database answers a query
    rateLimitMap, \* lib/rate-limit.ts: ip |-> [count, resetTime]
    wrapper, \* the arguments of withRateLimit: [limit, windowMs]
    window,  \* per ip, the requests seen since the window in force opened
    hook     \* hooks/useApi.ts: the state of one useUsers instance

vars == <<db, nextId, now, last, focus, reqs, env, connected,
          rateLimitMap, wrapper, window, hook>>

\* useUsers before it has rendered.
NoHook == [params |-> 0, data |-> {}, loading |-> TRUE, error |-> "null"]

\* new Map(): no key.
EmptyMap == [k \in {} |-> k]

\* withRateLimit(handler): limit = 100, windowMs = 15 * 60 * 1000.
DefaultWrapper == [limit |-> 100, windowMs |-> 15 * 60 * 1000]

\* process.env[name] of a variable that is not set, and the environment
\* of a deployment in which every variable is set.
Undefined == "undefined"
RequiredEnvVars == {"DATABASE_URL", "NEXTAUTH_SECRET", "NEXTAUTH_URL"}
FullEnv == [v \in RequiredEnvVars |-> "value"]

-----------------------------------------------------------------------------
(* Bounds of the model.                                                    *)

MaxRows == 1      \* rows inserted in a run of Spec
MaxClock == 1     \* clock ticks in a run
MaxFields == 1    \* fields supplied in one update

-----------------------------------------------------------------------------
(* The schema.                                                             *)

Entities ==
    {"User", "Block", "Folder", "Quiz", "Question", "Topic",
     "FillInTheBlank", "PointsUpdate"}

\* A String? / optional relation column holding NULL.
NullId == 0
Null == "null"

\* @relation(fields: [f], references: [id]) of each model.  required is
\* TRUE for a non-optional scalar (authorId String), FALSE for String?.
Relations(e) ==
    CASE e = "Block" ->
           {[field |-> "authorId", target |-> "User", required |-> TRUE],
            [field |-> "folderId", target |-> "Folder", required |-> FALSE]}
      [] e = "Folder" ->
           {[field |-> "authorId", target |-> "User", required |-> TRUE],
            [field |-> "parentId", target |-> "Folder", required |-> FALSE]}
      [] e = "Quiz" ->
           {[field |-> "blockId", target |-> "Block", required |-> FALSE],
            [field |-> "topicId", target |-> "Topic", required |-> FALSE]}
      [] e = "Question" ->
           {[field |-> "blockId", target |-> "Block", required |-> FALSE]}
      [] e = "Topic" ->
           {[field |-> "blockId", target |-> "Block", required |-> FALSE]}
      [] e = "FillInTheBlank" ->
           {[field |-> "blockId", target |-> "Block", required |-> FALSE]}
      [] e = "PointsUpdate" ->
           {[field |-> "blockId", target |-> "Block", required |-> FALSE],
            [field |-> "userId", target |-> "User", required |-> FALSE]}
      [] OTHER -> {}

\* Columns filled by the database when the caller gives none:
\* mode UserMode @default(STUDENT), published Boolean @default(false),
\* and NULL for every optional column.
Defaults(e) ==
    CASE e = "User" -> [name |-> Null, mode |-> "STUDENT"]
      [] e = "Block" -> [folderId |-> NullId, published |-> FALSE]
      [] e = "Folder" -> [parentId |-> NullId]
      [] e = "Quiz" -> [blockId |-> NullId, topicId |-> NullId]
      [] e = "Question" -> [blockId |-> NullId]
      [] e = "Topic" -> [blockId |-> NullId]
      [] e = "FillInTheBlank" -> [blockId |-> NullId]
      [] e = "PointsUpdate" -> [blockId |-> NullId, userId |-> NullId]

\* r restricted to the fields in S / r overridden by the fields of d.
Restrict(r, S) == [f \in S |-> r[f]]
Merge(r, d) ==
    [f \in DOMAIN r \cup DOMAIN d |-> IF f \in DOMAIN d THEN d[f] ELSE r[f]]

EmptyDb == [e \in Entities |-> <<>>]

-----------------------------------------------------------------------------
(* The Prisma client over PostgreSQL.                                      *)

\* prisma.<model>.findUnique({ where: { id } }): the row, or null.
findUnique(t, e, id) == IF id \in DOMAIN t[e] THEN {t[e][id]} ELSE {}

\* Fault: User.email is declared without @unique.
UniqueViolationUnchecked(t, e, row, self) == FALSE

\* Fault: the schema declares Topic.name @unique as well.
UniqueViolationTopicName(t, e, row, self) ==
    \/ /\ e = "User"
       /\ \E i \in DOMAIN t[e] : i # self /\ t[e][i].email = row.email
    \/ /\ e = "Topic"
       /\ \E i \in DOMAIN t[e] : i # self /\ t[e][i].name = row.name

\* email String @unique: another row of the table already holds the email.
UniqueViolation(t, e, row, self) ==
    /\ e = "User"
    /\ \E i \in DOMAIN t[e] : i # self /\ t[e][i].email = row.email

\* Fault: the schema declares the reference fields without @relation, so
\* the database checks no foreign key.
ForeignKeyViolationUnchecked(t, e, row) == FALSE

\* A foreign key written by the statement (a column of row) that names no
\* row of the table it references.  A column the statement does not write is
\* not checked again.
ForeignKeyViolation(t, e, row) ==
    \E r \in Relations(e) :
        /\ r.field \in DOMAIN row
        /\ row[r.field] # NullId
        /\ row[r.field] \notin DOMAIN t[r.target]

\* Fault: the defaults are applied over the supplied data, so a supplied
\* optional field is lost.
PrismaCreateDefaultsLast(t, e, data, id, time) ==
    LET row == Merge(Merge(data, Defaults(e)),
                     [id |-> id, createdAt |-> time, updatedAt |-> time])
    IN  IF UniqueViolation(t, e, row, id)
        THEN [code |-> "P2002", db |-> t, ret |-> {}]
        ELSE IF ForeignKeyViolation(t, e, row)
        THEN [code |-> "P2003", db |-> t, ret |-> {}]
        ELSE [code |-> "ok",
              db |-> [t EXCEPT ![e] =
                        [i \in DOMAIN t[e] \cup {id} |->
                            IF i = id THEN row ELSE t[e][i]]],
              ret |-> {row}]

\* prisma.<model>.create({ data }): P2002 on a unique violation, P2003 on
\* a foreign-key violation, otherwise the row is inserted with a fresh
\* cuid and both timestamps set to the current time.
PrismaCreate(t, e, data, id, time) ==
    LET row == Merge(Merge(Defaults(e), data),
                     [id |-> id, createdAt |-> time, updatedAt |-> time])
    IN  IF UniqueViolation(t, e, row, id)
        THEN [code |-> "P2002", db |-> t, ret |-> {}]
        ELSE IF ForeignKeyViolation(t, e, row)
        THEN [code |-> "P2003", db |-> t, ret |-> {}]
        ELSE [code |-> "ok",
              db |-> [t EXCEPT ![e] =
                        [i \in DOMAIN t[e] \cup {id} |->
                            IF i = id THEN row ELSE t[e][i]]],
              ret |-> {row}]

\* Fault: the update writes a whole row built from the supplied fields, so
\* every optional field that is not supplied falls back to its default.
PrismaUpdateReplacing(t, e, id, data, time) ==
    IF id \notin DOMAIN t[e]
    THEN [code |-> "P2025", db |-> t, ret |-> {}]
    ELSE LET row == Merge(Merge(Merge(t[e][id], Defaults(e)), data),
                          [updatedAt |-> time])
         IN  IF UniqueViolation(t, e, row, id)
             THEN [code |-> "P2002", db |-> t, ret |-> {}]
             ELSE IF ForeignKeyViolation(t, e, data)
             THEN [code |-> "P2003", db |-> t, ret |-> {}]
             ELSE [code |-> "ok",
                   db |-> [t EXCEPT ![e][id] = row],
                   ret |-> {row}]

\* prisma.<model>.update({ where: { id }, data }): P2025 when no row has
\* the id; otherwise the supplied fields overwrite the row's and
\* @updatedAt is set to the current time.
PrismaUpdate(t, e, id, data, time) ==
    IF id \notin DOMAIN t[e]
    THEN [code |-> "P2025", db |-> t, ret |-> {}]
    ELSE LET row == Merge(Merge(t[e][id], data), [updatedAt |-> time])
         IN  IF UniqueViolation(t, e, row, id)
             THEN [code |-> "P2002", db |-> t, ret |-> {}]
             ELSE IF ForeignKeyViolation(t, e, data)
             THEN [code |-> "P2003", db |-> t, ret |-> {}]
             ELSE [code |-> "ok",
                   db |-> [t EXCEPT ![e][id] = row],
                   ret |-> {row}]

\* Rows of table e2 whose relation r points at row id.
Referencing(t, e2, r, id) == {i \in DOMAIN t[e2] : t[e2][i][r.field] = id}

\* Fault: an optional relation that still points at the row blocks the
\* delete as a required one does.
RestrictedByAny(t, e, id) ==
    \E e2 \in Entities : \E r \in Relations(e2) :
        /\ r.target = e
        /\ Referencing(t, e2, r, id) # {}

\* A required relation still points at the row: onDelete defaults to
\* Restrict for a required relation.
Restricted(t, e, id) ==
    \E e2 \in Entities : \E r \in Relations(e2) :
        /\ r.target = e
        /\ r.required
        /\ Referencing(t, e2, r, id) # {}

\* Fault: referencing rows are left as they are when a row is deleted.
SetNullSkipped(t, e, id) == t

\* onDelete defaults to SetNull for an optional relation: every optional
\* foreign key that pointed at the row becomes NULL.
SetNull(t, e, id) ==
    [e2 \in Entities |->
        [i \in DOMAIN t[e2] |->
            LET hit == {r \in Relations(e2) :
                          /\ r.target = e
                          /\ ~r.required
                          /\ t[e2][i][r.field] = id}
            IN  Merge(t[e2][i], [f \in {r.field : r \in hit} |-> NullId])]]

\* prisma.<model>.delete({ where: { id } }): P2025 when no row has the id,
\* P2003 when the delete is restricted, otherwise the row is removed and
\* returned.
PrismaDelete(t, e, id) ==
    IF id \notin DOMAIN t[e]
    THEN [code |-> "P2025", db |-> t, ret |-> {}]
    ELSE IF Restricted(t, e, id)
    THEN [code |-> "P2003", db |-> t, ret |-> {}]
    ELSE LET u == SetNull(t, e, id)
         IN  [code |-> "ok",
              db |-> [u EXCEPT ![e] = Restrict(u[e], DOMAIN u[e] \ {id})],
              ret |-> {t[e][id]}]

-----------------------------------------------------------------------------
(* The access modules: lib/user.ts, lib/block.ts, lib/folder.ts, ...       *)

\* class <Entity>Error extends Error, one per module.
ErrorName(e) == e \o "Error"
NoError == [name |-> "", message |-> ""]
ModuleError(e, msg) == [name |-> ErrorName(e), message |-> msg]

\* The entity as the messages of its module spell it.
Label(e) ==
    CASE e = "PointsUpdate" -> "Points update"
      [] e = "FillInTheBlank" -> "Fill-in-the-blank"
      [] OTHER -> e

\* The entity as the failure messages spell it: 'Failed to create user'.
Noun(e) ==
    CASE e = "User" -> "user"
      [] e = "Block" -> "block"
      [] e = "Folder" -> "folder"
      [] e = "Quiz" -> "quiz"
      [] e = "Question" -> "question"
      [] e = "Topic" -> "topic"
      [] e = "FillInTheBlank" -> "fill-in-the-blank"
      [] e = "PointsUpdate" -> "points update"

\* Fault: the existence check answers true for every id.
existsAlways(t, e, id) == TRUE

\* userExists, blockExists, folderExists, ...: is there a row with the id.
exists(t, e, id) == findUnique(t, e, id) # {}

\* getUserById, getBlockById, ...: the row, or null (the empty set).
getById(t, e, id) == findUnique(t, e, id)

\* email.includes(c)
includes(str, c) == \E i \in 1..Len(str) : str[i] = c

\* Fault: the type guard accepts every string.
isValidEmailAlways(email) == TRUE

\* isValidEmail(email): email.includes('@') && email.includes('.')
isValidEmail(email) == includes(email, "@") /\ includes(email, ".")

\* Input validation of create: the message thrown, or "" when the data
\* passes.  createUser rejects a malformed email, createPointsUpdate a
\* negative points value.
ValidationError(e, data) ==
    CASE e = "User" /\ ~isValidEmail(data.email) -> "Invalid email format"
      [] e = "PointsUpdate" /\ data.points < 0 -> "Points cannot be negative"
      [] OTHER -> ""

\* The existence checks a module makes on the references of the data it
\* is given, in order: if (!await userExists(authorId)) throw ...,
\* if (folderId && !await folderExists(folderId)) throw ...
RelationChecks(e) ==
    CASE e = "Block" ->
           <<[field |-> "authorId", target |-> "User",
              message |-> "Author does not exist"],
             [field |-> "folderId", target |-> "Folder",
              message |-> "Folder does not exist"]>>
      [] e = "Folder" ->
           <<[field |-> "parentId", target |-> "Folder",
              message |-> "Parent folder does not exist"]>>
      [] e = "Quiz" ->
           <<[field |-> "blockId", target |-> "Block",
              message |-> "Block does not exist"],
             [field |-> "topicId", target |-> "Topic",
              message |-> "Topic does not exist"]>>
      [] e \in {"Question", "Topic", "FillInTheBlank"} ->
           <<[field |-> "blockId", target |-> "Block",
              message |-> "Block does not exist"]>>
      [] e = "PointsUpdate" ->
           <<[field |-> "blockId", target |-> "Block",
              message |-> "Block does not exist"],
             [field |-> "userId", target |-> "User",
              message |-> "User does not exist"]>>
      [] OTHER -> <<>>

\* Does check c reject the data: the reference is given, is not null and
\* names no row.
CheckFails(t, c, data) ==
    /\ c.field \in DOMAIN data
    /\ data[c.field] # NullId
    /\ ~exists(t, c.target, data[c.field])

\* The message of the first relation check that rejects the data, or "".
RelationshipError(t, e, data) ==
    LET cs == RelationChecks(e)
        bad == {k \in 1..Len(cs) : CheckFails(t, cs[k], data)}
    IN  IF bad = {} THEN ""
        ELSE cs[CHOOSE k \in bad : \A j \in bad : k <= j].message

\* Fault: the catch block reports every failure of a create alike.
CreateFailureGeneric(e, code) ==
    ModuleError(e, "Failed to create " \o Noun(e))

\* The catch block of a create: P2002 is reported as a duplicate email,
\* every other failure as a failed operation, always as the module's error.
CreateFailure(e, code) ==
    IF code = "P2002"
    THEN ModuleError(e, "Email already exists")
    ELSE ModuleError(e, "Failed to create " \o Noun(e))

\* createUser, createBlock, createFolder, ...: validate the input, check
\* that the referenced rows exist, insert.  Yields the store afterwards,
\* the error thrown (NoError when none) and the returned row.
create(t, e, data, id, time) ==
    IF ValidationError(e, data) # ""
    THEN [db |-> t, error |-> ModuleError(e, ValidationError(e, data)),
          ret |-> {}]
    ELSE IF RelationshipError(t, e, data) # ""
    THEN [db |-> t, error |-> ModuleError(e, RelationshipError(t, e, data)),
          ret |-> {}]
    ELSE LET r == PrismaCreate(t, e, data, id, time)
         IN  IF r.code = "ok"
             THEN [db |-> r.db, error |-> NoError, ret |-> r.ret]
             ELSE [db |-> t, error |-> CreateFailure(e, r.code), ret |-> {}]

\* Fault: only the new parent's own parent is compared with the child;
\* the walk does not continue to the ancestors above it.
AncestorWalkOneLevel(t, current, childId, seen) ==
    LET parent == getById(t, "Folder", current)
        up == IF parent = {} THEN NullId
              ELSE (CHOOSE p \in parent : TRUE).parentId
    IN  IF up # NullId /\ up = childId
        THEN "Circular reference detected"
        ELSE "ok"

\* The ancestor walk of validateParentChild:
\*   let current = parentId;
\*   while (current) {
\*     const parent = await getFolderById(current);
\*     if (parent?.parentId === childId) throw ...;
\*     current = parent?.parentId;
\*   }
\* seen holds the folders already visited: the store does not change during
\* the walk, so reaching one of them again means the loop never ends.
RECURSIVE AncestorWalk(_, _, _, _)
AncestorWalk(t, current, childId, seen) ==
    IF current = NullId THEN "ok"
    ELSE IF current \in seen THEN "diverges"
    ELSE LET parent == getById(t, "Folder", current)
             up == IF parent = {} THEN NullId
                   ELSE (CHOOSE p \in parent : TRUE).parentId
         IN  IF up # NullId /\ up = childId
             THEN "Circular reference detected"
             ELSE AncestorWalk(t, up, childId, seen \cup {current})

\* Fault: the parentId === childId test is missing.
validateParentChildNoSelfTest(t, parentId, childId) ==
    AncestorWalk(t, parentId, childId, {})

\* validateParentChild(parentId, childId): the message thrown, "ok" when it
\* returns, "diverges" when it does not terminate.
validateParentChild(t, parentId, childId) ==
    IF parentId = childId
    THEN "Folder cannot be its own parent"
    ELSE AncestorWalk(t, parentId, childId, {})

\* The guard of an update that assigns a parent folder.
ParentCheck(t, e, id, data) ==
    IF e = "Folder" /\ "parentId" \in DOMAIN data /\ data.parentId # NullId
    THEN validateParentChild(t, data.parentId, id)
    ELSE "ok"

\* updateUser, updateBlock, updateFolder, ...: verify that the target
\* exists, (for a folder) that the new parent closes no cycle, merge the
\* supplied fields and persist.
update(t, e, id, data, time) ==
    IF ~exists(t, e, id)
    THEN [db |-> t, error |-> ModuleError(e, Label(e) \o " not found"),
          ret |-> {}]
    ELSE IF ParentCheck(t, e, id, data) # "ok"
    THEN [db |-> t, error |-> ModuleError(e, ParentCheck(t, e, id, data)),
          ret |-> {}]
    ELSE LET r == PrismaUpdate(t, e, id, data, time)
         IN  IF r.code = "ok"
             THEN [db |-> r.db, error |-> NoError, ret |-> r.ret]
             ELSE [db |-> t,
                   error |-> ModuleError(e, "Failed to update " \o Noun(e)),
                   ret |-> {}]

\* deleteUser, deleteBlock, deleteFolder, ...: verify that the target
\* exists, remove the row and return it as it was.
delete(t, e, id) ==
    IF ~exists(t, e, id)
    THEN [db |-> t, error |-> ModuleError(e, Label(e) \o " not found"),
          ret |-> {}]
    ELSE LET r == PrismaDelete(t, e, id)
         IN  IF r.code = "ok"
             THEN [db |-> r.db, error |-> NoError, ret |-> r.ret]
             ELSE [db |-> t,
                   error |-> ModuleError(e, "Failed to delete " \o Noun(e)),
                   ret |-> {}]

-----------------------------------------------------------------------------
(* Inputs.                                                                 *)

\* Email addresses as character sequences: two well-formed, one without
\* '@' and '.'.
Emails ==
    {<<"a", "@", "x", ".", "y">>, <<"b", "@", "x", ".", "y">>, <<"a", "b">>}

\* Ids a caller can pass for a reference to table e: the id of every row
\* of the table and one id that no row has ever had.
RefArgs(e) == DOMAIN db[e] \cup {nextId}
NullableRefArgs(e) == {NullId} \cup RefArgs(e)

\* Records with every field of an entity that a caller can set.
FullData(e) ==
    CASE e = "User" ->
           [email : Emails, name : {"Ann", Null}, mode : {"STUDENT", "TEACHER"}]
      [] e = "Block" ->
           [title : {"t1", "t2"}, authorId : RefArgs("User"),
            folderId : NullableRefArgs("Folder"), published : BOOLEAN]
      [] e = "Folder" ->
           [name : {"f1", "f2"}, authorId : RefArgs("User"),
            parentId : NullableRefArgs("Folder")]
      [] e = "Quiz" ->
           [title : {"q1", "q2"}, blockId : NullableRefArgs("Block"),
            topicId : NullableRefArgs("Topic")]
      [] e = "Question" ->
           [text : {"x1", "x2"}, blockId : NullableRefArgs("Block")]
      [] e = "Topic" ->
           [name : {"n1", "n2"}, blockId : NullableRefArgs("Block")]
      [] e = "FillInTheBlank" ->
           [sentence : {"s1", "s2"}, blockId : NullableRefArgs("Block")]
      [] e = "PointsUpdate" ->
           [points : {-1, 1, 2}, blockId : NullableRefArgs("Block"),
            userId : NullableRefArgs("User")]

\* The fields Create<Entity>Data marks as required.
Required(e) ==
    CASE e = "User" -> {"email"}
      [] e = "Block" -> {"title", "authorId"}
      [] e = "Folder" -> {"name", "authorId"}
      [] e = "Quiz" -> {"title"}
      [] e = "Question" -> {"text"}
      [] e = "Topic" -> {"name"}
      [] e = "FillInTheBlank" -> {"sentence"}
      [] e = "PointsUpdate" -> {"points"}

Settable(e) == DOMAIN Defaults(e) \cup Required(e)

\* Create<Entity>Data: the required fields and any of the optional ones.
CreateData(e) ==
    {Restrict(r, Required(e) \cup S) :
        r \in FullData(e), S \in SUBSET (Settable(e) \ Required(e))}

\* Partial<Entity>: a choice of at most MaxFields of the fields; the
\* empty choice is update(id, {}).
PartialData(e) ==
    {Restrict(r, S) :
        r \in FullData(e),
        S \in {T \in SUBSET Settable(e) : Cardinality(T) <= MaxFields}}

-----------------------------------------------------------------------------
(* The data-access layer called one operation at a time.  A run exercises  *)
(* one module (focus) against a store that earlier calls have populated.   *)

\* The store after the calls of SeedCalls, made in order at time 0: a
\* user, a folder, a block in the folder, and a topic, a quiz, a question,
\* a fill-in-the-blank and a points update of that block.
RECURSIVE Populate(_, _, _)
Populate(t, calls, k) ==
    IF k > Len(calls) THEN t
    ELSE Populate(create(t, calls[k].entity, calls[k].data, k, 0).db,
                  calls, k + 1)

SeedCalls ==
    <<[entity |-> "User", data |-> [email |-> <<"a", "@", "x", ".", "y">>]],
      [entity |-> "Folder", data |-> [name |-> "f1", authorId |-> 1]],
      [entity |-> "Block",
       data |-> [title |-> "t1", authorId |-> 1, folderId |-> 2]],
      [entity |-> "Topic", data |-> [name |-> "n1", blockId |-> 3]],
      [entity |-> "Quiz",
       data |-> [title |-> "q1", blockId |-> 3, topicId |-> 4]],
      [entity |-> "Question", data |-> [text |-> "x1", blockId |-> 3]],
      [entity |-> "FillInTheBlank",
       data |-> [sentence |-> "s1", blockId |-> 3]],
      [entity |-> "PointsUpdate",
       data |-> [points |-> 2, blockId |-> 3, userId |-> 1]]>>

Seed == Populate(EmptyDb, SeedCalls, 1)

NoStatus == 0

NoCall == [op |-> "none", entity |-> "", error |-> NoError, status |-> NoStatus]

Init ==
    /\ focus \in Entities
    /\ db = Seed
    /\ nextId = Len(SeedCalls) + 1
    /\ now = 0
    /\ last = NoCall
    /\ reqs = <<>>
    /\ env = FullEnv
    /\ connected = TRUE
    /\ rateLimitMap = EmptyMap
    /\ wrapper = DefaultWrapper
    /\ window = EmptyMap
    /\ hook = NoHook

\* What the caller of an operation observes besides the value returned:
\* the operation, its module and the error thrown (NoError when none); a
\* route handler's caller observes the HTTP status of the response.
Outcome(op, e, r) ==
    [op |-> op, entity |-> e, error |-> r.error, status |-> NoStatus]

\* A call of create<Entity>(data).
Create(e, data) ==
    LET r == create(db, e, data, nextId, now)
    IN  /\ db' = r.db
        /\ nextId' = IF r.error = NoError THEN nextId + 1 ELSE nextId
        /\ last' = Outcome("create", e, r)
        /\ UNCHANGED <<focus, now, reqs, env, connected,
                 rateLimitMap, wrapper, window, hook>>

\* A call of update<Entity>(id, data).
Update(e, id, data) ==
    LET r == update(db, e, id, data, now)
    IN  /\ db' = r.db
        /\ last' = Outcome("update", e, r)
        /\ UNCHANGED <<focus, nextId, now, reqs, env, connected,
                 rateLimitMap, wrapper, window, hook>>

\* A call of delete<Entity>(id).
Delete(e, id) ==
    LET r == delete(db, e, id)
    IN  /\ db' = r.db
        /\ last' = Outcome("delete", e, r)
        /\ UNCHANGED <<focus, nextId, now, reqs, env, connected,
                 rateLimitMap, wrapper, window, hook>>

\* Time passes.
Tick ==
    /\ now < MaxClock
    /\ now' = now + 1
    /\ UNCHANGED <<focus, db, nextId, last, reqs, env, connected,
                 rateLimitMap, wrapper, window, hook>>

\* The updates by which a run of a module changes its rows: update(id, {})
\* and the updates of a single field.
Changes(e) ==
    {Restrict(r, S) :
        r \in FullData(e), S \in {{}} \cup {{f} : f \in Settable(e)}}

\* The calls of module e while fewer than limit ids have been handed out.
Calls(e, limit) ==
    \/ nextId <= limit /\ \E data \in CreateData(e) : Create(e, data)
    \/ \E data \in Changes(e) : \E id \in RefArgs(e) : Update(e, id, data)
    \/ \E id \in RefArgs(e) : Delete(e, id)

Next == Calls(focus, Len(SeedCalls) + MaxRows)

Spec == Init /\ [][Next]_vars

\* Updates and deletes of the populated store while time passes.
NextClock ==
    \/ \E id \in RefArgs(focus) : \E data \in PartialData(focus) :
          Update(focus, id, data)
    \/ \E id \in RefArgs(focus) : Delete(focus, id)
    \/ Tick

SpecClock == Init /\ [][NextClock]_vars

-----------------------------------------------------------------------------
(* Properties of the access modules.                                       *)

\* data names, in some foreign-key field, an id that no row of the
\* referenced table has.
UnknownReference(t, e, data) ==
    \E r \in Relations(e) :
        /\ r.field \in DOMAIN data
        /\ data[r.field] # NullId
        /\ data[r.field] \notin DOMAIN t[r.target]

EmailTaken(t, email) == \E i \in DOMAIN t["User"] : t["User"][i].email = email

C5_UnknownReferenceRejected ==
    \A data \in CreateData(focus) :
        UnknownReference(db, focus, data) =>
            LET r == create(db, focus, data, nextId, now)
            IN  /\ r.error.name = ErrorName(focus)
                /\ r.ret = {}
                /\ r.db = db

C5_Witness ==
    /\ last.op = "create"
    /\ last.entity = "Block"
    /\ last.error = [name |-> "BlockError", message |-> "Author does not exist"]
    /\ db = Seed

\* C6: a successful create(data) followed by getById(created.id) yields the
\* record create returned, and every supplied field has the value given.
C6_CreateThenGetById ==
    \A data \in CreateData(focus) :
        LET r == create(db, focus, data, nextId, now)
        IN  r.error = NoError =>
                /\ Cardinality(r.ret) = 1
                /\ \A created \in r.ret :
                      /\ getById(r.db, focus, created.id) = {created}
                      /\ \A f \in DOMAIN data : created[f] = data[f]

C6_Witness ==
    /\ last.op = "create"
    /\ last.error = NoError
    /\ \E i \in DOMAIN db[focus] : i > Len(SeedCalls)

C8_UpdateChangesOnlySupplied ==
    \A id \in DOMAIN db[focus] : \A data \in PartialData(focus) :
        LET r == update(db, focus, id, data, now)
            old == db[focus][id]
        IN  r.error = NoError =>
                /\ id \in DOMAIN r.db[focus]
                /\ DOMAIN r.db[focus][id] = DOMAIN old
                /\ \A f \in DOMAIN data : r.db[focus][id][f] = data[f]
                /\ \A f \in DOMAIN old \ (DOMAIN data \cup {"updatedAt"}) :
                      r.db[focus][id][f] = old[f]
                /\ r.db[focus][id].updatedAt = now
                /\ \A e \in Entities :
                      /\ DOMAIN r.db[e] = DOMAIN db[e]
                      /\ \A j \in DOMAIN db[e] :
                            (e # focus \/ j # id) => r.db[e][j] = db[e][j]

C8_Witness ==
    /\ last.op = "update"
    /\ last.error = NoError
    /\ \E i \in DOMAIN db[focus] :
          /\ db[focus][i].updatedAt > db[focus][i].createdAt
          /\ db[focus][i] # Merge(Seed[focus][i], [updatedAt |-> now])

\* C9: update and delete of an id that is not in the table throw the
\* module's not-found error and leave the whole store unchanged.
C9_MissingIdNotFound ==
    LET missing == (1..nextId) \ DOMAIN db[focus]
        notFound == [name |-> ErrorName(focus),
                     message |-> Label(focus) \o " not found"]
    IN  /\ \A id \in missing :
              LET d == delete(db, focus, id)
              IN  d.error = notFound /\ d.db = db
        /\ \A data \in PartialData(focus) : \A id \in missing :
              LET u == update(db, focus, id, data, now)
              IN  u.error = notFound /\ u.db = db

C9_Witness ==
    /\ last.op \in {"update", "delete"}
    /\ last.error = [name |-> ErrorName(focus),
                     message |-> Label(focus) \o " not found"]

-----------------------------------------------------------------------------
(* The folder module on its own: one author, folders created, re-parented, *)
(* renamed and deleted one call at a time.                                 *)

MaxFolders == 3   \* folders created in a run of SpecFolder

FolderSeedCalls ==
    <<[entity |-> "User", data |-> [email |-> <<"a", "@", "x", ".", "y">>]]>>

InitFolder ==
    /\ focus = "Folder"
    /\ db = Populate(EmptyDb, FolderSeedCalls, 1)
    /\ nextId = Len(FolderSeedCalls) + 1
    /\ now = 0
    /\ last = NoCall
    /\ reqs = <<>>
    /\ env = FullEnv
    /\ connected = TRUE
    /\ rateLimitMap = EmptyMap
    /\ wrapper = DefaultWrapper
    /\ window = EmptyMap
    /\ hook = NoHook

NextFolder == Calls("Folder", Len(FolderSeedCalls) + MaxFolders)

SpecFolder == InitFolder /\ [][NextFolder]_vars

\* The parent of folder j, NullId for a root or a folder that is not there.
ParentOf(t, j) ==
    IF j \in DOMAIN t["Folder"] THEN t["Folder"][j].parentId ELSE NullId

\* Following parentId from folder j for at most n steps reaches folder a.
RECURSIVE ReachesUp(_, _, _, _)
ReachesUp(t, j, a, n) ==
    /\ n > 0
    /\ ParentOf(t, j) # NullId
    /\ \/ ParentOf(t, j) = a
       \/ ReachesUp(t, ParentOf(t, j), a, n - 1)

\* j is a descendant of a: a child, a child of a child, ...
Descendant(t, j, a) == ReachesUp(t, j, a, Cardinality(DOMAIN t["Folder"]))

CycleErrors ==
    {[name |-> "FolderError", message |-> "Folder cannot be its own parent"],
     [name |-> "FolderError", message |-> "Circular reference detected"]}

\* C1: updateFolder(id, {parentId: p}) where p is id or a descendant of id
\* throws FolderError and leaves the folder's parentId (and the store)
\* unchanged.
C1_CycleRejected ==
    \A id \in DOMAIN db["Folder"] : \A p \in DOMAIN db["Folder"] :
        (p = id \/ Descendant(db, p, id)) =>
            LET r == update(db, "Folder", id, [parentId |-> p], now)
            IN  /\ r.error \in CycleErrors
                /\ r.db = db

C1_Witness ==
    /\ last.op = "update"
    /\ last.error = [name |-> "FolderError",
                     message |-> "Circular reference detected"]
    /\ \E j \in DOMAIN db["Folder"] :
          /\ ParentOf(db, j) # NullId
          /\ ParentOf(db, ParentOf(db, j)) # NullId

\* C2: after any sequence of createFolder, updateFolder and deleteFolder
\* calls made one at a time, no folder is its own ancestor.
C2_Acyclic ==
    \A j \in DOMAIN db["Folder"] : ~Descendant(db, j, j)

C2_Witness ==
    /\ last.op = "update"
    /\ last.error = NoError
    /\ \E j \in DOMAIN db["Folder"] :
          /\ ParentOf(db, j) > j
          /\ ParentOf(db, ParentOf(db, j)) # NullId

-----------------------------------------------------------------------------
(* The /api/users routes and the user module serving requests that         *)
(* interleave: a handler's existence check and its write are separate      *)
(* database calls, and other requests run between them.                    *)

MaxUsers == 2      \* ids after which no new create or POST is started
MaxInFlight == 2   \* requests between their check and their write

\* z.string().email(): a non-empty local part, one '@', and a domain with
\* a '.' that is neither its first nor its last character.
zodEmail(email) ==
    \E k \in 2..Len(email) :
        /\ email[k] = "@"
        /\ \A j \in 1..Len(email) : email[j] = "@" => j = k
        /\ \E d \in (k + 2)..(Len(email) - 1) : email[d] = "."

\* createUserSchema.parse(body) throws ZodError.
createUserSchemaFails(body) ==
    \/ ~zodEmail(body.email)
    \/ "name" \notin DOMAIN body
    \/ body.name = Null

Response(method, status) ==
    [op |-> method, entity |-> "User", error |-> NoError, status |-> status]

\* Bodies of POST /api/users and of PUT /api/users/[id]: an email, with
\* or without a name; a name.
PostBodies == {d \in CreateData("User") : "mode" \notin DOMAIN d}
PutBodies == {d \in PartialData("User") : DOMAIN d = {"name"}}

\* The data of the module's calls in this specification: every user is
\* created with a name, and an update sets the email or the name.
UserCreates == {d \in PostBodies : "name" \in DOMAIN d /\ d.name # Null}
UserUpdates ==
    {d \in PartialData("User") :
        /\ DOMAIN d # {}
        /\ "mode" \notin DOMAIN d
        /\ "name" \in DOMAIN d => d.name # Null}

\* The POST handlers waiting for their write.
PendingPosts == Cardinality({k \in 1..Len(reqs) : reqs[k].method = "POST"})

Without(q, k) == SubSeq(q, 1, k - 1) \o SubSeq(q, k + 1, Len(q))

\* The handlers in flight have no order among them: reqs lists them by
\* method and then by id, so that one collection of handlers is one list.
Precedes(p, q) ==
    LET rank(method) == CASE method = "POST" -> 1
                          [] method = "PUT" -> 2
                          [] method = "DELETE" -> 3
    IN  \/ rank(p.method) < rank(q.method)
        \/ p.method = q.method /\ p.id < q.id

Enlist(q, new) ==
    LET k == Cardinality({i \in 1..Len(q) : ~Precedes(new, q[i])})
    IN  SubSeq(q, 1, k) \o <<new>> \o SubSeq(q, k + 1, Len(q))

\* A handler that has passed its checks waits for its write.
Await(method, id, data) ==
    /\ Len(reqs) < MaxInFlight
    /\ reqs' = Enlist(reqs, [method |-> method, id |-> id, data |-> data])
    /\ UNCHANGED <<db, nextId, now, last, focus, env, connected,
                 rateLimitMap, wrapper, window, hook>>

\* A handler answers without writing.
Respond(method, status) ==
    /\ last' = Response(method, status)
    /\ UNCHANGED <<db, nextId, now, reqs, focus, env, connected,
                 rateLimitMap, wrapper, window, hook>>

\* Fault: the body is parsed before the session is looked at.
PostUsersBodyFirst(session, body) ==
    IF createUserSchemaFails(body) THEN Respond("POST", 400)
    ELSE IF ~session THEN Respond("POST", 401)
    ELSE IF EmailTaken(db, body.email) THEN Respond("POST", 409)
    ELSE Await("POST", NullId, body)

\* POST /api/users up to the write: session, body, findUnique by email.
PostUsers(session, body) ==
    IF ~session THEN Respond("POST", 401)
    ELSE IF createUserSchemaFails(body) THEN Respond("POST", 400)
    ELSE IF EmailTaken(db, body.email) THEN Respond("POST", 409)
    ELSE Await("POST", NullId, body)

\* PUT /api/users/[id] up to the write: session, body, findUnique by id.
PutUser(session, id, body) ==
    IF ~session THEN Respond("PUT", 401)
    ELSE IF "name" \in DOMAIN body /\ body.name = Null
    THEN Respond("PUT", 400)
    ELSE IF findUnique(db, "User", id) = {} THEN Respond("PUT", 404)
    ELSE Await("PUT", id, body)

\* Fault: the handler does not look at the session.
DeleteUserNoSession(session, id) ==
    IF findUnique(db, "User", id) = {} THEN Respond("DELETE", 404)
    ELSE Await("DELETE", id, [id |-> id])

\* DELETE /api/users/[id] up to the write: session, findUnique by id.
DeleteUser(session, id) ==
    IF ~session THEN Respond("DELETE", 401)
    ELSE IF findUnique(db, "User", id) = {} THEN Respond("DELETE", 404)
    ELSE Await("DELETE", id, [id |-> id])

\* GET /api/users/[id]: session, findUnique by id.
GetUser(session, id) ==
    IF ~session THEN Respond("GET", 401)
    ELSE IF findUnique(db, "User", id) = {} THEN Respond("GET", 404)
    ELSE Respond("GET", 200)

\* GET /api/users: session, findMany and count.
GetUsers(session) ==
    IF ~session THEN Respond("LIST", 401)
    ELSE Respond("LIST", 200)

\* The write of the k-th waiting handler and its response; an error thrown
\* by the database is caught and answered with 500.
Write(k) ==
    LET q == reqs[k]
        r == CASE q.method = "POST" ->
                    PrismaCreate(db, "User", q.data, nextId, now)
               [] q.method = "PUT" ->
                    PrismaUpdate(db, "User", q.id, q.data, now)
               [] q.method = "DELETE" ->
                    PrismaDelete(db, "User", q.id)
    IN  /\ db' = r.db
        /\ nextId' = IF q.method = "POST" /\ r.code = "ok"
                     THEN nextId + 1 ELSE nextId
        /\ last' = Response(q.method,
                            IF r.code # "ok" THEN 500
                            ELSE IF q.method = "POST" THEN 201 ELSE 200)
        /\ reqs' = Without(reqs, k)
        /\ UNCHANGED <<now, focus, env, connected,
                 rateLimitMap, wrapper, window, hook>>

InitUsers ==
    /\ focus = "User"
    /\ db = EmptyDb
    /\ nextId = 1
    /\ now = 0
    /\ last = NoCall
    /\ reqs = <<>>
    /\ env = FullEnv
    /\ connected = TRUE
    /\ rateLimitMap = EmptyMap
    /\ wrapper = DefaultWrapper
    /\ window = EmptyMap
    /\ hook = NoHook

NextUsers ==
    \/ \E data \in UserCreates :
          nextId + PendingPosts <= MaxUsers /\ Create("User", data)
    \/ \E id \in RefArgs("User") : \E data \in UserUpdates :
          Update("User", id, data)
    \/ \E id \in RefArgs("User") : Delete("User", id)
    \/ \E session \in BOOLEAN : \E body \in PostBodies :
          nextId + PendingPosts <= MaxUsers /\ PostUsers(session, body)
    \/ \E session \in BOOLEAN : \E id \in RefArgs("User") :
          \E body \in PutBodies : PutUser(session, id, body)
    \/ \E session \in BOOLEAN : \E id \in RefArgs("User") :
          DeleteUser(session, id)
    \/ \E k \in 1..Len(reqs) : Write(k)

SpecUsers == InitUsers /\ [][NextUsers]_vars

\* C3: no two users have the same email, whatever the order and
\* interleaving of createUser / POST, updateUser / PUT and deleteUser /
\* DELETE.
C3_EmailUnique ==
    \A i \in DOMAIN db["User"] : \A j \in DOMAIN db["User"] :
        db["User"][i].email = db["User"][j].email => i = j

\* Two POSTs of one email were in flight together: the first wrote its
\* row and the second was refused by the database.
C3_Witness ==
    /\ last.op = "POST"
    /\ last.status = 500
    /\ \E i \in DOMAIN db["User"] : isValidEmail(db["User"][i].email)

-----------------------------------------------------------------------------
(* The points-update module on its own: one user, two blocks, points       *)
(* updates created, changed and deleted one call at a time.                *)

MaxPoints == 2   \* points updates created in a run of SpecPoints

\* The rows of table e with their ids in ids, in id order.
RECURSIVE InIdOrder(_, _, _)
InIdOrder(t, e, ids) ==
    IF ids = {} THEN <<>>
    ELSE LET m == CHOOSE i \in ids : \A j \in ids : i <= j
         IN  <<t[e][m]>> \o InIdOrder(t, e, ids \ {m})

\* Fault: the query has no where clause and returns every points update.
getPointsUpdatesByBlockUnfiltered(t, blockId) ==
    InIdOrder(t, "PointsUpdate", DOMAIN t["PointsUpdate"])

\* getPointsUpdatesByBlock(blockId): all points updates of the block.
getPointsUpdatesByBlock(t, blockId) ==
    InIdOrder(t, "PointsUpdate",
              {i \in DOMAIN t["PointsUpdate"] :
                  t["PointsUpdate"][i].blockId = blockId})

\* updates.reduce((sum, update) => sum + update.points, 0), from element k.
RECURSIVE reduce(_, _, _)
reduce(updates, k, sum) ==
    IF k > Len(updates) THEN sum
    ELSE reduce(updates, k + 1, sum + updates[k].points)

\* getTotalPointsForBlock(blockId): the total points for a block.
getTotalPointsForBlock(t, blockId) ==
    reduce(getPointsUpdatesByBlock(t, blockId), 1, 0)

PointsSeedCalls ==
    <<[entity |-> "User", data |-> [email |-> <<"a", "@", "x", ".", "y">>]],
      [entity |-> "Block", data |-> [title |-> "t1", authorId |-> 1]],
      [entity |-> "Block", data |-> [title |-> "t2", authorId |-> 1]]>>

\* The data of the calls in this specification: points and block.
PointsCreates ==
    {d \in CreateData("PointsUpdate") : "userId" \notin DOMAIN d}
PointsChanges ==
    {d \in PartialData("PointsUpdate") : "userId" \notin DOMAIN d}

InitPoints ==
    /\ focus = "PointsUpdate"
    /\ db = Populate(EmptyDb, PointsSeedCalls, 1)
    /\ nextId = Len(PointsSeedCalls) + 1
    /\ now = 0
    /\ last = NoCall
    /\ reqs = <<>>
    /\ env = FullEnv
    /\ connected = TRUE
    /\ rateLimitMap = EmptyMap
    /\ wrapper = DefaultWrapper
    /\ window = EmptyMap
    /\ hook = NoHook

NextPoints ==
    \/ \E data \in PointsCreates :
          /\ nextId <= Len(PointsSeedCalls) + MaxPoints
          /\ Create("PointsUpdate", data)
    \/ \E id \in RefArgs("PointsUpdate") : \E data \in PointsChanges :
          Update("PointsUpdate", id, data)
    \/ \E id \in RefArgs("PointsUpdate") : Delete("PointsUpdate", id)

SpecPoints == InitPoints /\ [][NextPoints]_vars

\* The points of the rows with ids up to n that belong to block b, added.
RECURSIVE PointsUpTo(_, _, _)
PointsUpTo(t, b, n) ==
    IF n = 0 THEN 0
    ELSE PointsUpTo(t, b, n - 1) +
         (IF n \in DOMAIN t["PointsUpdate"] /\ t["PointsUpdate"][n].blockId = b
          THEN t["PointsUpdate"][n].points
          ELSE 0)

\* C10: after any sequence of create, update and delete of points
\* updates, getTotalPointsForBlock(b) is the sum of points over exactly
\* the rows whose blockId is b, and 0 when there is none.
C10_TotalIsSum ==
    \A b \in RefArgs("Block") :
        /\ getTotalPointsForBlock(db, b) = PointsUpTo(db, b, nextId)
        /\ (\A i \in DOMAIN db["PointsUpdate"] :
               db["PointsUpdate"][i].blockId # b)
              => getTotalPointsForBlock(db, b) = 0

\* Block 2 has two points updates, one of them changed since its
\* creation, and block 3 has none.
C10_Witness ==
    /\ last.op = "update"
    /\ last.error = NoError
    /\ Len(getPointsUpdatesByBlock(db, 2)) = 2
    /\ getTotalPointsForBlock(db, 2) = 3
    /\ getTotalPointsForBlock(db, 3) = 0

-----------------------------------------------------------------------------
(* The topic module on its own: topics created, renamed and deleted one    *)
(* call at a time and searched by name.  Names are sequences of letters.   *)

MaxTopics == 2   \* topics created in a run of SpecTopics

\* The lower-case form of a letter (the letters the names are made of).
Lower(c) ==
    CASE c = "N" -> "n"
      [] c = "U" -> "u"
      [] c = "C" -> "c"
      [] OTHER -> c

ToLower(str) == [i \in 1..Len(str) |-> Lower(str[i])]

\* str contains term as a substring (the empty term is in every string).
contains(str, term) ==
    \E i \in 0..(Len(str) - Len(term)) :
        \A k \in 1..Len(term) : str[i + k] = term[k]

\* Fault: the query omits mode: 'insensitive'.
searchTopicsByNameCaseSensitive(t, searchTerm) ==
    {t["Topic"][i] : i \in {j \in DOMAIN t["Topic"] :
                              contains(t["Topic"][j].name, searchTerm)}}

\* searchTopicsByName(searchTerm): search topics by name
\* (case-insensitive).
searchTopicsByName(t, searchTerm) ==
    {t["Topic"][i] : i \in {j \in DOMAIN t["Topic"] :
                              contains(ToLower(t["Topic"][j].name),
                                       ToLower(searchTerm))}}

TopicNames ==
    {<<"N", "u", "c">>, <<"n", "u">>, <<"u", "n">>, <<"c", "U">>}
SearchTerms == TopicNames \cup {<<"U">>, <<"n", "U", "C">>, <<>>}

InitTopics ==
    /\ focus = "Topic"
    /\ db = EmptyDb
    /\ nextId = 1
    /\ now = 0
    /\ last = NoCall
    /\ reqs = <<>>
    /\ env = FullEnv
    /\ connected = TRUE
    /\ rateLimitMap = EmptyMap
    /\ wrapper = DefaultWrapper
    /\ window = EmptyMap
    /\ hook = NoHook

NextTopics ==
    \/ \E name \in TopicNames :
          nextId <= MaxTopics /\ Create("Topic", [name |-> name])
    \/ \E id \in RefArgs("Topic") : \E name \in TopicNames :
          Update("Topic", id, [name |-> name])
    \/ \E id \in RefArgs("Topic") : Delete("Topic", id)

SpecTopics == InitTopics /\ [][NextTopics]_vars

\* Letters a and b are the same letter in upper or lower case.
SameLetter(a, b) ==
    \/ a = b
    \/ {a, b} \in {{"n", "N"}, {"u", "U"}, {"c", "C"}}

\* name has term as a substring when letter case is ignored.
NameMatches(name, term) ==
    \E i \in 1..(Len(name) + 1) :
        /\ i + Len(term) - 1 <= Len(name)
        /\ \A k \in 1..Len(term) : SameLetter(name[i + k - 1], term[k])

\* C11: searchTopicsByName(term) returns every topic whose name contains
\* term as a substring ignoring letter case, and no other topic.
C11_SearchExact ==
    \A term \in SearchTerms :
        LET found == searchTopicsByName(db, term)
        IN  \A i \in DOMAIN db["Topic"] :
                (db["Topic"][i] \in found)
                    <=> NameMatches(db["Topic"][i].name, term)

\* Two topics are stored, one renamed since its creation; the term "nu"
\* finds the one spelled "Nuc" and not the one spelled "un".
C11_Witness ==
    /\ last.op = "update"
    /\ last.error = NoError
    /\ Cardinality(searchTopicsByName(db, <<"n", "u">>)) = 1
    /\ \E r \in searchTopicsByName(db, <<"n", "u">>) :
          r.name = <<"N", "u", "c">>
    /\ \E i \in DOMAIN db["Topic"] : db["Topic"][i].name = <<"u", "n">>

-----------------------------------------------------------------------------
(* Relationship queries.                                                   *)

\* Fault: the query selects every folder that has a parent.
getFolderChildrenOfAny(t, id) ==
    InIdOrder(t, "Folder",
              {i \in DOMAIN t["Folder"] : t["Folder"][i].parentId # NullId})

\* getFolderChildren(id): all child folders of a folder.
getFolderChildren(t, id) ==
    InIdOrder(t, "Folder",
              {i \in DOMAIN t["Folder"] : t["Folder"][i].parentId = id})

\* getUserPosts(id): all blocks (posts) authored by a user.
getUserPosts(t, id) ==
    InIdOrder(t, "Block",
              {i \in DOMAIN t["Block"] : t["Block"][i].authorId = id})

\* The elements of a list.
Elements(list) == {list[k] : k \in 1..Len(list)}

\* list holds each row of rows once and nothing else.
ListsExactly(list, rows) ==
    /\ Elements(list) = rows
    /\ Len(list) = Cardinality(rows)

\* C12: getFolderChildren(id) returns exactly the folders whose parentId
\* is id and getUserPosts(id) exactly the blocks whose authorId is id.
C12_ReverseAccessors ==
    /\ \A id \in RefArgs("Folder") :
          ListsExactly(getFolderChildren(db, id),
                       {r \in {db["Folder"][i] : i \in DOMAIN db["Folder"]} :
                           r.parentId = id})
    /\ \A id \in RefArgs("User") :
          ListsExactly(getUserPosts(db, id),
                       {r \in {db["Block"][i] : i \in DOMAIN db["Block"]} :
                           r.authorId = id})

\* A folder was created under folder 2 and is its only child, beside a
\* root folder; the user has the one block created for them.
C12_Witness ==
    /\ focus = "Folder"
    /\ last.op = "create"
    /\ last.error = NoError
    /\ Len(getFolderChildren(db, 2)) = 1
    /\ getFolderChildren(db, 2)[1].id > Len(SeedCalls)
    /\ Len(getUserPosts(db, 1)) = 1
    /\ getUserPosts(db, 1)[1].id = 3

-----------------------------------------------------------------------------
(* The fill-in-the-blank module on its own: one user, two blocks, items    *)
(* created, changed and deleted one call at a time and drawn at random.    *)

MaxBlanks == 2     \* fill-in-the-blanks created in a run of SpecBlanks
RandomSteps == 4   \* Math.random() yields one of 0/4, 1/4, 2/4, 3/4

\* The values of Math.random(), as numerators over RandomSteps.
Randoms == 0..(RandomSteps - 1)

\* Math.floor(Math.random() * length)
RandomIndex(random, length) == (random * length) \div RandomSteps

\* Fault: the item is drawn from the whole table, as
\* getRandomFillInTheBlank() does.
getRandomFillInTheBlankOfAny(t, blockId, random) ==
    LET items == InIdOrder(t, "FillInTheBlank", DOMAIN t["FillInTheBlank"])
    IN  IF Len(items) = 0 THEN {}
        ELSE {items[RandomIndex(random, Len(items)) + 1]}

\* getRandomFillInTheBlankByBlock(blockId): a random fill-in-the-blank of
\* the block, or null (the empty set) when it has none.
getRandomFillInTheBlankByBlock(t, blockId, random) ==
    LET items == InIdOrder(t, "FillInTheBlank",
                           {i \in DOMAIN t["FillInTheBlank"] :
                               t["FillInTheBlank"][i].blockId = blockId})
    IN  IF Len(items) = 0 THEN {}
        ELSE {items[RandomIndex(random, Len(items)) + 1]}

InitBlanks ==
    /\ focus = "FillInTheBlank"
    /\ db = Populate(EmptyDb, PointsSeedCalls, 1)
    /\ nextId = Len(PointsSeedCalls) + 1
    /\ now = 0
    /\ last = NoCall
    /\ reqs = <<>>
    /\ env = FullEnv
    /\ connected = TRUE
    /\ rateLimitMap = EmptyMap
    /\ wrapper = DefaultWrapper
    /\ window = EmptyMap
    /\ hook = NoHook

NextBlanks == Calls("FillInTheBlank", Len(PointsSeedCalls) + MaxBlanks)

SpecBlanks == InitBlanks /\ [][NextBlanks]_vars

\* C13: whatever Math.random() yields, getRandomFillInTheBlankByBlock(b)
\* returns a stored FillInTheBlank row whose blockId is b, and returns
\* null exactly when no stored row has that blockId.
C13_RandomOfBlock ==
    \A b \in RefArgs("Block") : \A random \in Randoms :
        LET got == getRandomFillInTheBlankByBlock(db, b, random)
            ofBlock == {i \in DOMAIN db["FillInTheBlank"] :
                           db["FillInTheBlank"][i].blockId = b}
        IN  /\ (got = {}) <=> (ofBlock = {})
            /\ \A r \in got :
                  /\ r.id \in ofBlock
                  /\ r = db["FillInTheBlank"][r.id]

\* Both blocks have an item, one of them moved to its block by an update;
\* the draw for block 2 yields block 2's item.
C13_Witness ==
    /\ last.op = "update"
    /\ last.error = NoError
    /\ getRandomFillInTheBlankByBlock(db, 3, 0) # {}
    /\ \E r \in getRandomFillInTheBlankByBlock(db, 2, 3) : r.blockId = 2
    /\ Cardinality(DOMAIN db["FillInTheBlank"]) = 2

-----------------------------------------------------------------------------
(* createUser and deleteUser called one at a time with well-formed and     *)
(* malformed emails.                                                       *)

MaxAccounts == 3   \* users created in a run of SpecEmails

\* Emails a caller may pass: two addresses, two strings that are no
\* address but have an '@' and a '.', and two strings that lack one of
\* them.
EmailInputs ==
    {<<"a", "@", "x", ".", "y">>, <<"b", "@", "x", ".", "y">>,
     <<".", "@">>, <<"a", ".", "b", "@">>,
     <<"a", "b">>, <<"a", ".", "b">>, <<"a", "@", "b">>}

InitEmails ==
    /\ focus = "User"
    /\ db = EmptyDb
    /\ nextId = 1
    /\ now = 0
    /\ last = NoCall
    /\ reqs = <<>>
    /\ env = FullEnv
    /\ connected = TRUE
    /\ rateLimitMap = EmptyMap
    /\ wrapper = DefaultWrapper
    /\ window = EmptyMap
    /\ hook = NoHook

NextEmails ==
    \/ \E email \in EmailInputs :
          nextId <= MaxAccounts /\ Create("User", [email |-> email])
    \/ \E id \in RefArgs("User") : Delete("User", id)

SpecEmails == InitEmails /\ [][NextEmails]_vars

\* The call rejects with 'Invalid email format' and creates no user.
RejectsAsInvalid(r) ==
    /\ r.error.message = "Invalid email format"
    /\ r.ret = {}
    /\ r.db = db

-----------------------------------------------------------------------------
(* The five /api/users handlers on their own, answering requests with and  *)
(* without a session.                                                      *)

MaxPending == 1   \* handlers between check and write in a run of SpecRoutes

\* The store the requests meet: a user, and a block written by that user.
RoutesSeedCalls ==
    <<[entity |-> "User",
       data |-> [email |-> <<"a", "@", "x", ".", "y">>, name |-> "Ann"]],
      [entity |-> "Block", data |-> [title |-> "t1", authorId |-> 1]]>>

InitRoutes ==
    /\ focus = "User"
    /\ db = Populate(EmptyDb, RoutesSeedCalls, 1)
    /\ nextId = Len(RoutesSeedCalls) + 1
    /\ now = 0
    /\ last = NoCall
    /\ reqs = <<>>
    /\ env = FullEnv
    /\ connected = TRUE
    /\ rateLimitMap = EmptyMap
    /\ wrapper = DefaultWrapper
    /\ window = EmptyMap
    /\ hook = NoHook

NextRoutes ==
    \/ \E session \in BOOLEAN : \E body \in PostBodies :
          /\ nextId + PendingPosts <= Len(RoutesSeedCalls) + MaxUsers
          /\ Len(reqs) < MaxPending
          /\ PostUsers(session, body)
    \/ \E session \in BOOLEAN : \E id \in RefArgs("User") :
          \E body \in PutBodies :
             Len(reqs) < MaxPending /\ PutUser(session, id, body)
    \/ \E session \in BOOLEAN : \E id \in RefArgs("User") :
          Len(reqs) < MaxPending /\ DeleteUser(session, id)
    \/ \E k \in 1..Len(reqs) : Write(k)
    \/ \E session \in BOOLEAN : \E id \in RefArgs("User") :
          GetUser(session, id)
    \/ \E session \in BOOLEAN : GetUsers(session)

SpecRoutes == InitRoutes /\ [][NextRoutes]_vars

\* The step answers a request with the status and leaves the store and
\* the waiting handlers alone.
Answers(method, status) ==
    /\ last' = Response(method, status)
    /\ db' = db
    /\ reqs' = reqs

\* The step is the handler going on to its write without having answered.
GoesOn ==
    /\ db' = db
    /\ last' = last
    /\ Len(reqs') = Len(reqs) + 1

\* What the first part of a POST does: 401 without a session whatever
\* the body, else 400 for a body the schema rejects, else 409 for a taken
\* email, else the handler goes on to its write.
PostChecksInOrder(session, body) ==
    IF ~session THEN Answers("POST", 401)
    ELSE IF createUserSchemaFails(body) THEN Answers("POST", 400)
    ELSE IF EmailTaken(db, body.email) THEN Answers("POST", 409)
    ELSE GoesOn

\* What the write of a POST does: 201 and the user the body describes.
PostCreates(data) ==
    /\ last' = Response("POST", 201)
    /\ DOMAIN db'["User"] = DOMAIN db["User"] \cup {nextId}
    /\ nextId \notin DOMAIN db["User"]
    /\ \A f \in DOMAIN data : db'["User"][nextId][f] = data[f]

\* C15: POST /api/users answers 401 without a session (before the body is
\* looked at), otherwise 400 when the body fails the schema, otherwise 409
\* when the email is taken, otherwise 201 with the created user; a POST
\* adds a row only when it answers 201.
C15_PostStatuses ==
    /\ \A session \in BOOLEAN : \A body \in PostBodies :
          ~ENABLED (PostUsers(session, body)
                      /\ ~PostChecksInOrder(session, body))
    /\ \A k \in 1..Len(reqs) :
          reqs[k].method = "POST" =>
              /\ ~EmailTaken(db, reqs[k].data.email) =>
                    ~ENABLED (Write(k) /\ ~PostCreates(reqs[k].data))
              /\ ~ENABLED (Write(k) /\ db'["User"] # db["User"]
                             /\ last'.status # 201)

\* A POST has just answered 201 and its user is stored.
C15_Witness ==
    /\ last = Response("POST", 201)
    /\ \E i \in DOMAIN db["User"] : i = nextId - 1

\* What the write of a PUT does: 200 and the user with the body's fields.
PutUpdates(id, data) ==
    /\ last' = Response("PUT", 200)
    /\ DOMAIN db'["User"] = DOMAIN db["User"]
    /\ \A f \in DOMAIN data : db'["User"][id][f] = data[f]

\* What the write of a DELETE does: 200 and the user is gone.
DeleteRemoves(id) ==
    /\ last' = Response("DELETE", 200)
    /\ DOMAIN db'["User"] = DOMAIN db["User"] \ {id}

\* C17 as stated: GET, PUT and DELETE on /api/users/{id} with a session
\* answer 404 and change nothing when no user has the id; when the user
\* exists GET answers 200, PUT answers 200 with the updated user and
\* DELETE answers 200 having deleted the user.
C17_ByIdStatuses ==
    /\ \A id \in RefArgs("User") : \A body \in PutBodies :
          IF id \notin DOMAIN db["User"]
          THEN /\ ~ENABLED (GetUser(TRUE, id) /\ ~Answers("GET", 404))
               /\ ~ENABLED (DeleteUser(TRUE, id) /\ ~Answers("DELETE", 404))
               /\ body.name # Null =>
                     ~ENABLED (PutUser(TRUE, id, body)
                                 /\ ~Answers("PUT", 404))
          ELSE /\ ~ENABLED (GetUser(TRUE, id) /\ ~Answers("GET", 200))
               /\ ~ENABLED (DeleteUser(TRUE, id) /\ ~GoesOn)
               /\ body.name # Null =>
                     ~ENABLED (PutUser(TRUE, id, body) /\ ~GoesOn)
    /\ \A k \in 1..Len(reqs) :
          reqs[k].id \in DOMAIN db["User"] =>
              /\ reqs[k].method = "PUT" =>
                    ~ENABLED (Write(k) /\ ~PutUpdates(reqs[k].id, reqs[k].data))
              /\ reqs[k].method = "DELETE" =>
                    ~ENABLED (Write(k) /\ ~DeleteRemoves(reqs[k].id))

\* C18: every /api/users handler answers a request without a session with
\* 401, whatever the request and the store hold, and such a request
\* changes neither the User table nor anything else.
C18_NoSessionNoEffect ==
    /\ \A body \in PostBodies :
          ~ENABLED (PostUsers(FALSE, body) /\ ~Answers("POST", 401))
    /\ ~ENABLED (GetUsers(FALSE) /\ ~Answers("LIST", 401))
    /\ \A id \in RefArgs("User") :
          /\ ~ENABLED (GetUser(FALSE, id) /\ ~Answers("GET", 401))
          /\ ~ENABLED (DeleteUser(FALSE, id) /\ ~Answers("DELETE", 401))
          /\ \A body \in PutBodies :
                ~ENABLED (PutUser(FALSE, id, body) /\ ~Answers("PUT", 401))

\* A DELETE of a stored user has just been refused for want of a session,
\* and the user is still stored.
C18_Witness ==
    /\ last = Response("DELETE", 401)
    /\ \E i \in DOMAIN db["User"] : i > Len(RoutesSeedCalls)

\* C16 as stated: whenever a POST /api/users cannot insert because the
\* email is already taken, also by a POST that ran between this one's
\* existence check and its insert, the response is 409 and never 500.
C16_TakenEmailAnswers409 ==
    [][\A k \in 1..Len(reqs) :
          (/\ reqs[k].method = "POST"
           /\ Write(k)
           /\ EmailTaken(db, reqs[k].data.email))
             => last'.status = 409]_vars

-----------------------------------------------------------------------------
(* GET /api/health (app/api/health/route.ts).                              *)

\* Values a variable of the environment takes: not set, set to the empty
\* string, set to some text.
EnvValues == {Undefined, "", "value"}

\* !process.env[varName]: undefined and the empty string are falsy.
Falsy(v) == v \in {Undefined, ""}

\* Fault: only DATABASE_URL is looked at.
missingVarsDatabaseOnly(e) == {v \in {"DATABASE_URL"} : Falsy(e[v])}

\* requiredEnvVars.filter((varName) => !process.env[varName])
missingVars(e) == {v \in RequiredEnvVars : Falsy(e[v])}

\* The handler: the probe SELECT 1 throws when the database does not
\* answer and the catch block reports it; then the environment is tested.
health(up, e) ==
    IF ~up
    THEN [status |-> 500,
          body |-> [status |-> "error", message |-> "Health check failed"]]
    ELSE IF Cardinality(missingVars(e)) > 0
    THEN [status |-> 500,
          body |-> [status |-> "error",
                    message |-> "Missing environment variables",
                    missing |-> missingVars(e)]]
    ELSE [status |-> 200,
          body |-> [status |-> "healthy", database |-> "connected"]]

\* A request to the endpoint.
GetHealth ==
    /\ last' = health(connected, env)
    /\ UNCHANGED <<db, nextId, now, focus, reqs, env, connected,
                 rateLimitMap, wrapper, window, hook>>

\* The deployment changes one variable of the environment.
SetEnv(v, value) ==
    /\ env[v] # value
    /\ env' = [env EXCEPT ![v] = value]
    /\ UNCHANGED <<db, nextId, now, last, focus, reqs, connected,
                 rateLimitMap, wrapper, window, hook>>

\* The database goes down or comes back.
Outage ==
    /\ connected' = ~connected
    /\ UNCHANGED <<db, nextId, now, last, focus, reqs, env,
                 rateLimitMap, wrapper, window, hook>>

InitHealth ==
    /\ focus = "Health"
    /\ db = EmptyDb
    /\ nextId = 1
    /\ now = 0
    /\ last = NoCall
    /\ reqs = <<>>
    /\ env = FullEnv
    /\ connected = TRUE
    /\ rateLimitMap = EmptyMap
    /\ wrapper = DefaultWrapper
    /\ window = EmptyMap
    /\ hook = NoHook

NextHealth ==
    \/ GetHealth
    \/ \E v \in RequiredEnvVars : \E value \in EnvValues : SetEnv(v, value)
    \/ Outage

SpecHealth == InitHealth /\ [][NextHealth]_vars

\* A variable is set when it has a value other than the empty string.
AllSet(e) == \A v \in RequiredEnvVars : e[v] \notin {Undefined, ""}

\* C19: GET /api/health answers 200 with status 'healthy' and database
\* 'connected' exactly when the database probe succeeds and DATABASE_URL,
\* NEXTAUTH_SECRET and NEXTAUTH_URL are all set; in every other case it
\* answers 500 with status 'error'.
C19_HealthyIffProbeAndEnv ==
    LET r == health(connected, env) IN
    IF connected /\ AllSet(env)
    THEN /\ r.status = 200
         /\ r.body.status = "healthy"
         /\ r.body.database = "connected"
    ELSE /\ r.status = 500
         /\ r.body.status = "error"

\* The endpoint has just answered 'error' in a deployment whose database
\* answers and which lacks NEXTAUTH_URL only.
C19_Witness ==
    /\ last = health(connected, env)
    /\ last.status = 500
    /\ connected
    /\ missingVars(env) = {"NEXTAUTH_URL"}

-----------------------------------------------------------------------------
(* Repeated creates.                                                       *)

MaxRepeats == 2   \* create calls in a run of SpecRepeat

\* The module in focus is called with create<Entity>(data) again and
\* again, on the populated store.
NextRepeat ==
    \E data \in CreateData(focus) :
        /\ nextId <= Len(SeedCalls) + MaxRepeats
        /\ Create(focus, data)

SpecRepeat == Init /\ [][NextRepeat]_vars

\* Rows i and j of table e hold the same data: they agree on every field
\* but the id.
SameData(t, e, i, j) ==
    \A f \in DOMAIN t[e][i] \ {"id"} : t[e][i][f] = t[e][j][f]

-----------------------------------------------------------------------------
(* deleteFolder on a folder that holds folders or blocks.                  *)

\* The child folders of folder id and the blocks it contains.
ChildFolders(t, id) == {j \in DOMAIN t["Folder"] : t["Folder"][j].parentId = id}
ContainedBlocks(t, id) == {j \in DOMAIN t["Block"] : t["Block"][j].folderId = id}

\* deleteFolder(id) succeeded and removed that folder row and no other row.
RemovesOnlyFolder(r, id) ==
    /\ r.error = NoError
    /\ \A e \in Entities :
          DOMAIN r.db[e] = IF e = "Folder" THEN DOMAIN db[e] \ {id}
                           ELSE DOMAIN db[e]

-----------------------------------------------------------------------------
(* The policy on points values.                                            *)

\* The call was refused with PointsUpdateError and stored nothing.
RefusedByPoints(r) ==
    /\ r.error.name = "PointsUpdateError"
    /\ r.ret = {}
    /\ r.db = db

\* C22 as stated: createPointsUpdate and updatePointsUpdate reject a
\* negative points value with PointsUpdateError and store nothing, and no
\* stored PointsUpdate has points < 0.
C22_NegativePointsRejected ==
    /\ \A data \in PointsCreates :
          data.points < 0 =>
              RefusedByPoints(create(db, "PointsUpdate", data, nextId, now))
    /\ \A id \in DOMAIN db["PointsUpdate"] : \A data \in PointsChanges :
          ("points" \in DOMAIN data /\ data.points < 0) =>
              RefusedByPoints(update(db, "PointsUpdate", id, data, now))
    /\ \A i \in DOMAIN db["PointsUpdate"] : db["PointsUpdate"][i].points >= 0

-----------------------------------------------------------------------------
(* lib/rate-limit.ts: withRateLimit(handler, limit, windowMs).             *)

MaxLimit == 2    \* largest limit a wrapper is made with
MaxWindow == 2   \* longest windowMs a wrapper is made with
MaxTime == 4     \* Date.now() when the run ends

\* request.ip of the clients: an address, and a request without one.
Ips == {"10.0.0.1", Undefined}

\* request.ip || 'unknown'
IpKey(ip) == IF ip = Undefined THEN "unknown" ELSE ip

\* Map.set(key, value)
MapSet(map, key, value) ==
    [k \in DOMAIN map \cup {key} |-> IF k = key THEN value ELSE map[k]]

\* Fault: the count is compared with > instead of >=.
rateLimitLate(map, w, key, time) ==
    IF key \in DOMAIN map /\ time < map[key].resetTime
    THEN IF map[key].count > w.limit
         THEN [map |-> map, limited |-> TRUE]
         ELSE [map |-> MapSet(map, key,
                              [map[key] EXCEPT !.count = map[key].count + 1]),
               limited |-> FALSE]
    ELSE [map |-> MapSet(map, key,
                         [count |-> 1, resetTime |-> time + w.windowMs]),
          limited |-> FALSE]

\* Fault: a request that is refused is counted and starts the window anew.
rateLimitPunishing(map, w, key, time) ==
    IF key \in DOMAIN map /\ time < map[key].resetTime
    THEN IF map[key].count >= w.limit
         THEN [map |-> MapSet(map, key,
                              [count |-> map[key].count + 1,
                               resetTime |-> time + w.windowMs]),
               limited |-> TRUE]
         ELSE [map |-> MapSet(map, key,
                              [map[key] EXCEPT !.count = map[key].count + 1]),
               limited |-> FALSE]
    ELSE [map |-> MapSet(map, key,
                         [count |-> 1, resetTime |-> time + w.windowMs]),
          limited |-> FALSE]

\* The wrapper up to its last line: the map afterwards, and whether the
\* request is answered 429 instead of being handed to the handler.
rateLimit(map, w, key, time) ==
    IF key \in DOMAIN map /\ time < map[key].resetTime
    THEN IF map[key].count >= w.limit
         THEN [map |-> map, limited |-> TRUE]
         ELSE [map |-> MapSet(map, key,
                              [map[key] EXCEPT !.count = map[key].count + 1]),
               limited |-> FALSE]
    ELSE [map |-> MapSet(map, key,
                         [count |-> 1, resetTime |-> time + w.windowMs]),
          limited |-> FALSE]

\* What the client of the wrapped route observes: 429, or the handler's
\* response.
Limited(key) ==
    [op |-> "429", entity |-> key,
     error |-> [name |-> "", message |-> "Rate limit exceeded"],
     status |-> 429]
Handled(key) ==
    [op |-> "handler", entity |-> key, error |-> NoError, status |-> 200]

\* The requests of a key since its window in force opened: the window
\* runs from the request that opened it until resetTime; passed counts
\* the requests handed to the handler, refused those answered 429.
Observe(w, key, time, limited) ==
    IF key \in DOMAIN window /\ time < window[key].resetTime
    THEN MapSet(window, key,
                IF limited
                THEN [window[key] EXCEPT !.refused = TRUE]
                ELSE [window[key] EXCEPT !.passed = window[key].passed + 1])
    ELSE MapSet(window, key,
                [resetTime |-> time + w.windowMs,
                 passed |-> IF limited THEN 0 ELSE 1,
                 refused |-> limited,
                 reopened |-> key \in DOMAIN window /\ window[key].refused])

\* A request of a client reaches the wrapped route.  The wrapper runs
\* without awaiting anything before it calls the handler, so no other
\* request runs in between.
Request(ip) ==
    LET key == IpKey(ip)
        r == rateLimit(rateLimitMap, wrapper, key, now)
    IN  /\ rateLimitMap' = r.map
        /\ last' = IF r.limited THEN Limited(key) ELSE Handled(key)
        /\ window' = Observe(wrapper, key, now, r.limited)
        /\ UNCHANGED <<db, nextId, now, focus, reqs, env, connected, wrapper, hook>>

\* Time passes.
Elapse ==
    /\ now < MaxTime
    /\ now' = now + 1
    /\ UNCHANGED <<db, nextId, last, focus, reqs, env, connected,
                   rateLimitMap, wrapper, window, hook>>

InitLimit ==
    /\ focus = "RateLimit"
    /\ db = EmptyDb
    /\ nextId = 1
    /\ now = 0
    /\ last = NoCall
    /\ reqs = <<>>
    /\ env = FullEnv
    /\ connected = TRUE
    /\ rateLimitMap = EmptyMap
    /\ wrapper \in [limit : 1..MaxLimit, windowMs : 1..MaxWindow]
    /\ window = EmptyMap
    /\ hook = NoHook

NextLimit ==
    \/ \E ip \in Ips : Request(ip)
    \/ Elapse

SpecLimit == InitLimit /\ [][NextLimit]_vars

\* The window of key is in force.
InWindow(key) == key \in DOMAIN window /\ now < window[key].resetTime

C24_UnblockedAfterWindow ==
    /\ \A ip \in Ips :
          ~ENABLED (/\ Request(ip)
                    /\ last' = Limited(IpKey(ip))
                    /\ rateLimitMap' # rateLimitMap)
    /\ \A key \in DOMAIN rateLimitMap :
          /\ key \in DOMAIN window
          /\ rateLimitMap[key].resetTime = window[key].resetTime
          /\ rateLimitMap[key].resetTime <= now + wrapper.windowMs
    /\ \A ip \in Ips :
          LET key == IpKey(ip) IN
          (key \in DOMAIN rateLimitMap /\ now >= rateLimitMap[key].resetTime) =>
              ~ENABLED (/\ Request(ip)
                        /\ ~(/\ last' = Handled(key)
                             /\ rateLimitMap'[key] =
                                   [count |-> 1,
                                    resetTime |-> now + wrapper.windowMs]))

\* A client that was answered 429 in its previous window has been handed
\* to the handler again by the request that opened a new one.
C24_Witness ==
    \E key \in DOMAIN window :
        /\ window[key].reopened
        /\ window[key].passed = 1
        /\ last = Handled(key)
        /\ rateLimitMap[key] =
              [count |-> 1, resetTime |-> now + wrapper.windowMs]

-----------------------------------------------------------------------------
(* lib/error-handler.ts: withErrorHandler(handler).                        *)

\* createErrorResponse(error, status, details): details is put in the
\* body when it is truthy.  The callers pass nothing or an array, and an
\* array is truthy also when it is empty.
createErrorResponse(error, status, details) ==
    [status |-> status, error |-> error,
     details |-> IF details = Undefined THEN Undefined ELSE details]

\* What the wrapped handler can throw: error.name, error.code,
\* error.errors and error.message.
ErrorNames ==
    {"PrismaClientKnownRequestError", "ZodError", "Error", "TypeError",
     "UserError"}
ErrorCodes == {Undefined, "P2002", "P2025", "P2003"}
ErrorLists == {Undefined, <<>>, <<"Invalid email">>}
ErrorMessages == {"failed", "Unique constraint failed"}
Thrown ==
    [name : ErrorNames, code : ErrorCodes, errors : ErrorLists,
     message : ErrorMessages]

\* What the wrapped handler can return.
Returned ==
    {[status |-> 200, error |-> Undefined, details |-> Undefined],
     [status |-> 201, error |-> Undefined, details |-> Undefined],
     createErrorResponse("Unauthorized", 401, Undefined),
     createErrorResponse("User not found", 404, Undefined)}

\* A run of the handler: it returns a response or throws an error.
Outcomes ==
    [throws : {FALSE}, response : Returned] \cup [throws : {TRUE}, error : Thrown]

\* Fault: the switch has no case for P2025.
withErrorHandlerNoP2025(outcome) ==
    IF ~outcome.throws THEN outcome.response
    ELSE IF outcome.error.name = "PrismaClientKnownRequestError"
    THEN CASE outcome.error.code = "P2002" ->
                createErrorResponse("Resource already exists", 409, Undefined)
           [] OTHER -> createErrorResponse("Database error", 500, Undefined)
    ELSE IF outcome.error.name = "ZodError"
    THEN createErrorResponse("Validation error", 400, outcome.error.errors)
    ELSE createErrorResponse("Internal server error", 500, Undefined)

\* The function withErrorHandler returns: the handler's response, or the
\* response the catch block makes of the error.
withErrorHandler(outcome) ==
    IF ~outcome.throws THEN outcome.response
    ELSE IF outcome.error.name = "PrismaClientKnownRequestError"
    THEN CASE outcome.error.code = "P2002" ->
                createErrorResponse("Resource already exists", 409, Undefined)
           [] outcome.error.code = "P2025" ->
                createErrorResponse("Resource not found", 404, Undefined)
           [] OTHER -> createErrorResponse("Database error", 500, Undefined)
    ELSE IF outcome.error.name = "ZodError"
    THEN createErrorResponse("Validation error", 400, outcome.error.errors)
    ELSE createErrorResponse("Internal server error", 500, Undefined)

\* A request to a wrapped route: the client gets the response, and the
\* state keeps what the handler did with it.
Wrapped(outcome) ==
    /\ last' = [op |-> "withErrorHandler", entity |-> "", error |-> NoError,
                status |-> withErrorHandler(outcome).status,
                outcome |-> outcome,
                response |-> withErrorHandler(outcome)]
    /\ UNCHANGED <<db, nextId, now, focus, reqs, env, connected,
                   rateLimitMap, wrapper, window, hook>>

InitErrors ==
    /\ focus = "ErrorHandler"
    /\ db = EmptyDb
    /\ nextId = 1
    /\ now = 0
    /\ last = NoCall
    /\ reqs = <<>>
    /\ env = FullEnv
    /\ connected = TRUE
    /\ rateLimitMap = EmptyMap
    /\ wrapper = DefaultWrapper
    /\ window = EmptyMap
    /\ hook = NoHook

NextErrors == \E outcome \in Outcomes : Wrapped(outcome)

SpecErrors == InitErrors /\ [][NextErrors]_vars

\* C25: withErrorHandler maps every error thrown by the wrapped handler
\* to one response: Prisma known-request error P2002 to 409, P2025 to 404,
\* any other Prisma known-request code to 500, a ZodError to 400 with its
\* errors as details, any other error to 500 'Internal server error'; a
\* response the handler returns is passed on unchanged.
C25_ErrorToStatus ==
    last.op = "withErrorHandler" =>
        LET o == last.outcome
            r == last.response
        IN  IF ~o.throws THEN r = o.response
            ELSE IF o.error.name = "PrismaClientKnownRequestError"
            THEN r.status = (IF o.error.code = "P2002" THEN 409
                             ELSE IF o.error.code = "P2025" THEN 404
                             ELSE 500)
            ELSE IF o.error.name = "ZodError"
            THEN /\ r.status = 400
                 /\ o.error.errors # Undefined => r.details = o.error.errors
            ELSE /\ r.status = 500
                 /\ r.error = "Internal server error"

\* The handler threw the Prisma error P2025 and the client got 404.
C25_Witness ==
    /\ last.op = "withErrorHandler"
    /\ last.outcome.throws
    /\ last.outcome.error.name = "PrismaClientKnownRequestError"
    /\ last.outcome.error.code = "P2025"
    /\ last.status = 404

-----------------------------------------------------------------------------
(* reorganizeFolders (Folder Reorganization): move the folders whose       *)
(* parent is not in the table to the root level.                           *)
(*                                                                         *)
(* The function is written for a table in which a parentId may name a      *)
(* folder that is not there.  While the foreign key of Folder.parent is in *)
(* force no such row arises (the delete of a parent nulls the reference),  *)
(* so SpecReorg starts from the tables the function looks for: any table   *)
(* of at most MaxShelf folders whose parentId is NULL, a folder of the     *)
(* table, or a folder that is missing.                                     *)

MaxShelf == 3     \* folders of a table of SpecReorg

ShelfIds == 2 .. (1 + MaxShelf)

\* A folder id that no row has.
MissingFolder == 2 + MaxShelf

\* The folder tables over the ids S: folder i has parent p[i].
Shelf(S, p) ==
    [i \in S |->
        [id |-> i, name |-> "f1", authorId |-> 1, parentId |-> p[i],
         createdAt |-> 0, updatedAt |-> 0]]

\* The fields of an update's data that Prisma writes: a field whose value
\* is undefined is left out of the statement (only null clears a column).
Supplied(data) ==
    Restrict(data, {f \in DOMAIN data : data[f] # Undefined})

\* allFolders.filter(folder => folder.parentId &&
\*     !allFolders.find(f => f.id === folder.parentId))
orphanedFolders(t) ==
    {i \in DOMAIN t["Folder"] :
        /\ t["Folder"][i].parentId # NullId
        /\ t["Folder"][i].parentId \notin DOMAIN t["Folder"]}

\* await updateFolder(orphanedFolder.id, { parentId: undefined })
MoveToRoot(t, id, time) ==
    update(t, "Folder", id, Supplied([parentId |-> Undefined]), time)

\* for (const orphanedFolder of orphanedFolders) { await updateFolder(...) }
\* over the folders todo, in the order of their ids (the updates touch
\* different rows and none reads another's parent, so the order does not
\* matter).  A throw ends the loop; the catch block logs it and the function
\* returns.
RECURSIVE MoveAll(_, _, _)
MoveAll(t, todo, time) ==
    IF todo = {} THEN [db |-> t, error |-> NoError]
    ELSE LET id == CHOOSE i \in todo : \A j \in todo : i <= j
             r == MoveToRoot(t, id, time)
         IN  IF r.error # NoError
             THEN [db |-> t, error |-> r.error]
             ELSE MoveAll(r.db, todo \ {id}, time)

\* reorganizeFolders(): the first loop; the second loop only reads
\* (getFolderChildren, getFolderBlocks) and logs, its delete is commented
\* out.
reorganizeFolders(t, time) == MoveAll(t, orphanedFolders(t), time)

\* A call of reorganizeFolders().
Reorganize ==
    LET r == reorganizeFolders(db, now)
    IN  /\ db' = r.db
        /\ last' = [op |-> "reorganizeFolders", entity |-> "Folder",
                    error |-> r.error, status |-> NoStatus,
                    orphans |-> orphanedFolders(db)]
        /\ UNCHANGED <<focus, nextId, now, reqs, env, connected,
                 rateLimitMap, wrapper, window, hook>>

InitReorg ==
    /\ focus = "Folder"
    /\ \E S \in SUBSET ShelfIds :
         \E p \in [S -> {NullId} \cup ShelfIds \cup {MissingFolder}] :
            db = [Populate(EmptyDb, SubSeq(SeedCalls, 1, 1), 1)
                    EXCEPT !["Folder"] = Shelf(S, p)]
    /\ nextId = MissingFolder + 1
    /\ now = 0
    /\ last = NoCall
    /\ reqs = <<>>
    /\ env = FullEnv
    /\ connected = TRUE
    /\ rateLimitMap = EmptyMap
    /\ wrapper = DefaultWrapper
    /\ window = EmptyMap
    /\ hook = NoHook

NextReorg == Reorganize \/ Tick

SpecReorg == InitReorg /\ [][NextReorg]_vars

-----------------------------------------------------------------------------
(* publishBlock (Content Publishing Workflow).                             *)

MaxContent == 1   \* rows inserted in a run of SpecPublish

\* getBlockTopics(id), getBlockQuestions(id): the rows of the block.
getBlockTopics(t, id) == {i \in DOMAIN t["Topic"] : t["Topic"][i].blockId = id}
getBlockQuestions(t, id) ==
    {i \in DOMAIN t["Question"] : t["Question"][i].blockId = id}

\* Fault: the test of questions.length is missing.
publishBlockNoQuestionTest(t, blockId, time) ==
    IF ~exists(t, "Block", blockId)
    THEN [db |-> t, error |-> ModuleError("Block", "Block not found"),
          ret |-> {}]
    ELSE IF getBlockTopics(t, blockId) = {}
    THEN [db |-> t,
          error |-> ModuleError("Block", "Block must have at least one topic"),
          ret |-> {}]
    ELSE update(t, "Block", blockId, [published |-> TRUE], time)

\* publishBlock(blockId): the store it leaves, the error it rethrows
\* (NoError when it returns) and the block it returns.
publishBlock(t, blockId, time) ==
    IF ~exists(t, "Block", blockId)
    THEN [db |-> t, error |-> ModuleError("Block", "Block not found"),
          ret |-> {}]
    ELSE IF getBlockTopics(t, blockId) = {}
    THEN [db |-> t,
          error |-> ModuleError("Block", "Block must have at least one topic"),
          ret |-> {}]
    ELSE IF getBlockQuestions(t, blockId) = {}
    THEN [db |-> t,
          error |-> ModuleError("Block",
                                "Block must have at least one question"),
          ret |-> {}]
    ELSE update(t, "Block", blockId, [published |-> TRUE], time)

\* A call of publishBlock(blockId).
Publish(blockId) ==
    LET r == publishBlock(db, blockId, now)
    IN  /\ db' = r.db
        /\ last' = [op |-> "publishBlock", entity |-> "Block",
                    error |-> r.error, status |-> NoStatus, id |-> blockId]
        /\ UNCHANGED <<focus, nextId, now, reqs, env, connected,
                 rateLimitMap, wrapper, window, hook>>

InitPublish ==
    /\ focus = "Block"
    /\ db = Seed
    /\ nextId = Len(SeedCalls) + 1
    /\ now = 0
    /\ last = NoCall
    /\ reqs = <<>>
    /\ env = FullEnv
    /\ connected = TRUE
    /\ rateLimitMap = EmptyMap
    /\ wrapper = DefaultWrapper
    /\ window = EmptyMap
    /\ hook = NoHook

\* The rows a run of SpecPublish inserts: a block, and a topic or a
\* question of any block or of none.
PublishCreates(e) ==
    CASE e = "Block" -> [title : {"t2"}, authorId : {1}]
      [] e = "Topic" -> [name : {"n2"}, blockId : NullableRefArgs("Block")]
      [] e = "Question" -> [text : {"x2"}, blockId : NullableRefArgs("Block")]

\* Its updates: the published flag of a block, the block of a topic or of
\* a question.
PublishChanges(e) ==
    CASE e = "Block" -> [published : BOOLEAN]
      [] e = "Topic" -> [blockId : NullableRefArgs("Block")]
      [] e = "Question" -> [blockId : NullableRefArgs("Block")]

\* publishBlock among the calls of the block, topic and question modules.
NextPublish ==
    \/ \E blockId \in RefArgs("Block") : Publish(blockId)
    \/ \E e \in {"Block", "Topic", "Question"} :
          \/ /\ nextId <= Len(SeedCalls) + MaxContent
             /\ \E data \in PublishCreates(e) : Create(e, data)
          \/ \E data \in PublishChanges(e) : \E id \in RefArgs(e) :
                Update(e, id, data)
          \/ \E id \in RefArgs(e) : Delete(e, id)

SpecPublish == InitPublish /\ [][NextPublish]_vars

\* The block can be published: it exists and has a topic and a question.
Publishable(t, blockId) ==
    /\ blockId \in DOMAIN t["Block"]
    /\ getBlockTopics(t, blockId) # {}
    /\ getBlockQuestions(t, blockId) # {}

\* C27: publishBlock(blockId) sets published to true only if the block
\* exists and has at least one topic and at least one question; otherwise it
\* throws BlockError and leaves the published flag (and the store) unchanged.
C27_PublishOnlyComplete ==
    \A blockId \in RefArgs("Block") :
        LET r == publishBlock(db, blockId, now)
        IN  IF Publishable(db, blockId)
            THEN /\ r.error = NoError
                 /\ r.db["Block"][blockId].published
            ELSE /\ r.error.name = "BlockError"
                 /\ r.db = db

\* publishBlock has returned the block it published: a block with a topic
\* and a question.
C27_Witness ==
    /\ last.op = "publishBlock"
    /\ last.error = NoError
    /\ db["Block"][last.id].published
    /\ Publishable(db, last.id)

-----------------------------------------------------------------------------
(* updateFolder calls that overlap.  A call awaits validateParentChild and *)
(* then awaits prisma.folder.update; between the two another call can run, *)
(* so a call is two steps: its checks against the store as it is, and its  *)
(* write to the store as it has become.                                    *)

MaxMoves == 2     \* updateFolder calls between their check and their write

\* A user and three root folders (ids 2, 3 and 4).
RaceSeedCalls ==
    <<[entity |-> "User", data |-> [email |-> <<"a", "@", "x", ".", "y">>]],
      [entity |-> "Folder", data |-> [name |-> "f1", authorId |-> 1]],
      [entity |-> "Folder", data |-> [name |-> "f1", authorId |-> 1]],
      [entity |-> "Folder", data |-> [name |-> "f1", authorId |-> 1]]>>

\* The calls in flight have no order among them: reqs lists them by folder
\* and then by the parent they assign.
MoveBefore(p, q) ==
    \/ p.id < q.id
    \/ p.id = q.id /\ p.data.parentId <= q.data.parentId

EnlistMove(q, new) ==
    LET k == Cardinality({i \in 1..Len(q) : MoveBefore(q[i], new)})
    IN  SubSeq(q, 1, k) \o <<new>> \o SubSeq(q, k + 1, Len(q))

\* The outcome of a call that does not return.
Hangs == [name |-> "", message |-> "does not return"]

\* updateFolder(id, { parentId }) up to its write: the folder exists and
\* validateParentChild returns.  A walk that goes round a cycle keeps the
\* call from ever returning.
BeginMove(id, parentId) ==
    LET data == [parentId |-> parentId]
        check == ParentCheck(db, "Folder", id, data)
    IN  IF ~exists(db, "Folder", id)
        THEN /\ last' = [op |-> "update", entity |-> "Folder",
                         error |-> ModuleError("Folder", "Folder not found"),
                         status |-> NoStatus]
             /\ UNCHANGED <<db, nextId, now, reqs, focus, env, connected,
                 rateLimitMap, wrapper, window, hook>>
        ELSE IF check = "diverges"
        THEN /\ last' = [op |-> "update", entity |-> "Folder",
                         error |-> Hangs, status |-> NoStatus]
             /\ UNCHANGED <<db, nextId, now, reqs, focus, env, connected,
                 rateLimitMap, wrapper, window, hook>>
        ELSE IF check # "ok"
        THEN /\ last' = [op |-> "update", entity |-> "Folder",
                         error |-> ModuleError("Folder", check),
                         status |-> NoStatus]
             /\ UNCHANGED <<db, nextId, now, reqs, focus, env, connected,
                 rateLimitMap, wrapper, window, hook>>
        ELSE /\ Len(reqs) < MaxMoves
             /\ reqs' = EnlistMove(reqs, [method |-> "updateFolder",
                                          id |-> id, data |-> data])
             /\ UNCHANGED <<db, nextId, now, last, focus, env, connected,
                 rateLimitMap, wrapper, window, hook>>

\* The write of the call at position k: prisma.folder.update.
CommitMove(k) ==
    LET call == reqs[k]
        r == PrismaUpdate(db, "Folder", call.id, call.data, now)
    IN  /\ db' = r.db
        /\ reqs' = Without(reqs, k)
        /\ last' = [op |-> "update", entity |-> "Folder",
                    error |-> IF r.code = "ok" THEN NoError
                              ELSE ModuleError("Folder",
                                               "Failed to update folder"),
                    status |-> NoStatus]
        /\ UNCHANGED <<nextId, now, focus, env, connected,
                 rateLimitMap, wrapper, window, hook>>

\* validateFolderStructure(folderId): the message thrown, "ok" when it
\* returns true, "diverges" when it does not return.
validateFolderStructure(t, folderId) ==
    LET folder == getById(t, "Folder", folderId)
    IN  IF folder = {} THEN "Folder not found"
        ELSE LET parentId == (CHOOSE f \in folder : TRUE).parentId
             IN  IF parentId # NullId
                 THEN validateParentChild(t, parentId, folderId)
                 ELSE "ok"

\* A call of validateFolderStructure(folderId).
Validate(folderId) ==
    LET check == validateFolderStructure(db, folderId)
    IN  /\ last' = [op |-> "validateFolderStructure", entity |-> "Folder",
                    error |-> CASE check = "ok" -> NoError
                                [] check = "diverges" -> Hangs
                                [] OTHER -> ModuleError("Folder", check),
                    status |-> NoStatus]
        /\ UNCHANGED <<db, nextId, now, reqs, focus, env, connected,
                 rateLimitMap, wrapper, window, hook>>

InitRace ==
    /\ focus = "Folder"
    /\ db = Populate(EmptyDb, RaceSeedCalls, 1)
    /\ nextId = Len(RaceSeedCalls) + 1
    /\ now = 0
    /\ last = NoCall
    /\ reqs = <<>>
    /\ env = FullEnv
    /\ connected = TRUE
    /\ rateLimitMap = EmptyMap
    /\ wrapper = DefaultWrapper
    /\ window = EmptyMap
    /\ hook = NoHook

NextRace ==
    \/ \E id \in RefArgs("Folder") : \E parentId \in NullableRefArgs("Folder") :
          BeginMove(id, parentId)
    \/ \E k \in 1..Len(reqs) : CommitMove(k)
    \/ \E folderId \in RefArgs("Folder") : Validate(folderId)

SpecRace == InitRace /\ [][NextRace]_vars

\* C28: when updateFolder calls that change parentId overlap, each making
\* its ancestor check before either one writes, no folder is its own
\* ancestor once all of them have finished.
C28_AcyclicAfterOverlap ==
    reqs = <<>> => \A j \in DOMAIN db["Folder"] : ~Descendant(db, j, j)

\* C29: validateParentChild(parentId, childId) terminates on every folder
\* store, also when parentId names a missing folder or the store holds a
\* parent cycle that does not pass through childId.
C29_WalkTerminates ==
    \A parentId \in RefArgs("Folder") : \A childId \in RefArgs("Folder") :
        validateParentChild(db, parentId, childId) # "diverges"

-----------------------------------------------------------------------------
(* hooks/useApi.ts: useUsers.  The hook holds data, loading and error; its *)
(* effect runs fetchUsers after the first render and after every render    *)
(* in which params.page, params.limit or params.search has changed.  Of    *)
(* the three only page is varied; a fetch in flight is an entry of reqs.   *)

MaxPage == 3      \* pages a render can ask for
MaxFetches == 3   \* fetches of one hook in flight at one time

Pages == 1..MaxPage

\* apiClient.getUsers(params): the response of GET /api/users?page=...
getUsers(params) == [users |-> <<>>, pagination |-> [page |-> params]]

\* fetchUsers up to its await: setLoading(true); setError(null); the
\* request leaves.
fetchUsers(h, params) ==
    [h EXCEPT !.params = params, !.loading = TRUE, !.error = Null]

\* A render with new params: the dependencies differ, the effect runs.
Render(params) ==
    /\ params # hook.params
    /\ Len(reqs) < MaxFetches
    /\ hook' = fetchUsers(hook, params)
    /\ reqs' = Append(reqs, [method |-> "GET", id |-> NullId,
                             data |-> [page |-> params]])
    /\ UNCHANGED <<db, nextId, now, last, focus, env, connected,
                   rateLimitMap, wrapper, window>>

\* fetchUsers after its await: setData(result), or setError(...) in the
\* catch block; setLoading(false) in the finally block.
Settle(h, call, ok) ==
    IF ok
    THEN [h EXCEPT !.data = {getUsers(call.data.page)}, !.loading = FALSE]
    ELSE [h EXCEPT !.error = "Failed to fetch users", !.loading = FALSE]

\* The fetch at position k of reqs completes: the responses arrive in any
\* order.
Arrive(k, ok) ==
    /\ hook' = Settle(hook, reqs[k], ok)
    /\ reqs' = Without(reqs, k)
    /\ UNCHANGED <<db, nextId, now, last, focus, env, connected,
                   rateLimitMap, wrapper, window>>

\* The hook after its first render and the first run of its effect.
InitHook ==
    /\ focus = "User"
    /\ db = EmptyDb
    /\ nextId = 1
    /\ now = 0
    /\ last = NoCall
    /\ \E params \in Pages :
         /\ hook = fetchUsers(NoHook, params)
         /\ reqs = <<[method |-> "GET", id |-> NullId,
                      data |-> [page |-> params]]>>
    /\ env = FullEnv
    /\ connected = TRUE
    /\ rateLimitMap = EmptyMap
    /\ wrapper = DefaultWrapper
    /\ window = EmptyMap

NextHook ==
    \/ \E params \in Pages : Render(params)
    \/ \E k \in 1..Len(reqs) : \E ok \in BOOLEAN : Arrive(k, ok)

SpecHook == InitHook /\ [][NextHook]_vars

\* A fetch for the hook's current params is in flight.
Fetching == \E k \in 1..Len(reqs) : reqs[k].data.page = hook.params

\* C30: once every fetch the hook started has completed (none of them
\* having failed), data holds the response for the most recent params and
\* loading is false, whatever the order in which the responses arrived; and
\* loading is never false while the fetch for the current params is in
\* flight.
C30_LatestParamsWin ==
    /\ (reqs = <<>> /\ hook.error = Null) =>
            /\ hook.data = {getUsers(hook.params)}
            /\ ~hook.loading
    /\ Fetching => hook.loading

====
